---- MODULE Spec2Model ----
(***************************************************************************)
(* Model of volttron/platform/dbutils/redshiftfuncts.py (RedshiftFuncts),  *)
(* the historian storage driver: the table-name registry, the bulk-insert  *)
(* session, the range query, the topic dictionary and the whitelisted      *)
(* aggregate.  The backend tables are state; every driver method is an     *)
(* action (or a pure operator used by one).                                *)
(***************************************************************************)
EXTENDS Integers, Sequences, FiniteSets, Bags, TLC

VARIABLES
    uniqueEnforced,   \* does the backend enforce the declared UNIQUE constraints
    registryExists,   \* the registry (meta_table_name) table has been created
    registry,         \* its rows <<table_id, table_name>>, in insertion order
    lastWritten,      \* history: per key, the name given by the last call that wrote it
    lastDefs,         \* history: the definitions of the latest record_table_definitions call
    data,             \* the data table: a bag of rows [ts, topic_id, value_string]
    session,          \* position of the bulk_insert context manager: "idle" | "open"
    records,          \* bulk_insert's closure list of formatted row tuples
    submitted,        \* history: the (ts, topic_id, data) triples given to insert_data
    executed,         \* statements sent through execute_stmt by the current session
    topics,           \* the topics table: a set of rows [topic_id, topic_name]
    nextTopicId,      \* the next value of the IDENTITY (1, 1) column
    attrs,            \* the driver instance's table-name attributes (self.__dict__)
    aggTopicsTables,  \* aggregate-topics tables by physical name: [rows, identity]
    aggMetaTables,    \* aggregate-metadata tables by physical name: rows <<id, metadata>>
    result            \* what the last driver call returned or raised

vars == <<uniqueEnforced, registryExists, registry, lastWritten, lastDefs, data, session,
          records, submitted, executed, topics, nextTopicId, attrs, aggTopicsTables,
          aggMetaTables, result>>

registryVars == <<registryExists, registry, lastWritten, lastDefs>>
writerVars == <<data, session, records, submitted, executed>>
topicVars == <<topics, nextTopicId>>
aggVars == <<attrs, aggTopicsTables, aggMetaTables>>

NoResult == [op |-> "none"]

----------------------------------------------------------------------------
(* Bounds of the model.                                                    *)

MaxBatch == 2           \* rows submitted within one bulk_insert session
MaxRows == 3            \* rows the data table holds
MaxTopics == 3          \* identity values handed out by the topics table
MaxAggTopics == 2       \* identity values handed out by an aggregate-topics table
MaxAggMeta == 2         \* rows an aggregate-metadata table holds

----------------------------------------------------------------------------
(* Table Name Registry: record_table_definitions / read_tablenames_from_db *)

\* The table definitions a historian passes: the three table names are
\* always present, table_prefix is optional (absent = no such key).
TableDefs ==
    { <<<<"data_table", d>>, <<"topics_table", t>>, <<"meta_table", m>>>> :
          d \in {"data", "readings"}, t \in {"topics", "points"}, m \in {"meta", "info"} }
    \cup
    { <<<<"data_table", d>>, <<"topics_table", t>>, <<"meta_table", "meta">>,
        <<"table_prefix", p>>>> :
          d \in {"data", "readings"}, t \in {"topics", "points"}, p \in {"plant1", "plant2"} }

\* tables_names = tables_def.copy(); tables_names[''] = tables_names.pop('table_prefix', '')
\* (dict items, the popped key re-inserted last under the reserved empty key).
tables_names(tables_def) ==
    LET rest == SelectSeq(tables_def, LAMBDA kv : kv[1] # "table_prefix")
        pref == SelectSeq(tables_def, LAMBDA kv : kv[1] = "table_prefix")
    IN  Append(rest, <<"", IF pref = <<>> THEN "" ELSE pref[1][2]>>)

\* cursor.execute(update_stmt): UPDATE .. SET table_name = name WHERE table_id = key
UpdateRows(rows, key, name) ==
    [i \in 1..Len(rows) |-> IF rows[i][1] = key THEN <<key, name>> ELSE rows[i]]

\* cursor.rowcount after the UPDATE
RowCount(rows, key) == Cardinality({i \in 1..Len(rows) : rows[i][1] = key})

\* Variant: the loop body inserts without trying the update first.
UpsertMutantAlwaysInsert(rows, key, name) == Append(rows, <<key, name>>)

\* One pass of the loop body: update by key, insert when no row was updated.
Upsert(rows, key, name) ==
    IF RowCount(rows, key) # 0
    THEN UpdateRows(rows, key, name)
    ELSE Append(rows, <<key, name>>)

RECURSIVE UpsertAll(_, _)
UpsertAll(rows, items) ==
    IF items = <<>> THEN rows
    ELSE UpsertAll(Upsert(rows, items[1][1], items[1][2]), Tail(items))

\* The dict the loop iterates over.  The code builds tables_names (prefix
\* moved to the reserved empty key) and then iterates tables_def.items().
LoopItems(tables_def) == tables_def

RECURSIVE WriteHistory(_, _)
WriteHistory(hist, items) ==
    IF items = <<>> THEN hist
    ELSE WriteHistory((items[1][1] :> items[1][2]) @@ hist, Tail(items))

\* record_table_definitions(tables_def, meta_table_name): CREATE TABLE IF NOT
\* EXISTS, then the update-else-insert loop inside one cursor scope.
record_table_definitions(tables_def) ==
    /\ registryExists' = TRUE
    /\ registry' = UpsertAll(registry, LoopItems(tables_def))
    /\ lastWritten' = WriteHistory(lastWritten, LoopItems(tables_def))
    /\ lastDefs' = tables_def
    /\ result' = [op |-> "record_table_definitions",
                  repeated |-> (tables_def = lastDefs),
                  updated |-> Cardinality({i \in 1..Len(tables_def) :
                                  RowCount(registry, LoopItems(tables_def)[i][1]) # 0})]
    /\ UNCHANGED <<uniqueEnforced, aggVars, writerVars, topicVars>>

RecordTableDefinitions == \E tables_def \in TableDefs : record_table_definitions(tables_def)

\* dict(rows): a later row replaces an earlier one with the same key.
DictOf(rows) ==
    LET keys == {rows[i][1] : i \in 1..Len(rows)}
        last(k) == CHOOSE i \in 1..Len(rows) :
                      /\ rows[i][1] = k
                      /\ \A j \in 1..Len(rows) : rows[j][1] = k => j <= i
    IN  [k \in keys |-> rows[last(k)][2]]

\* The mapping read_tablenames_from_db returns from the selected rows, or
\* the KeyError of tables['topics_table'] / tables['meta_table'].
read_tablenames(rows) ==
    LET all == DictOf(rows)
        prefix == IF "" \in DOMAIN all THEN all[""] ELSE ""
        tables == [k \in DOMAIN all \ {""} |-> all[k]]
    IN  IF ~ {"topics_table", "meta_table"} \subseteq DOMAIN tables
        THEN [op |-> "read_tablenames_from_db", raised |-> "KeyError"]
        ELSE LET derived == ("agg_topics_table" :> ("aggregate_" \o tables["topics_table"]))
                            @@ ("agg_meta_table" :> ("aggregate_" \o tables["meta_table"]))
                            @@ tables
             IN  [op |-> "read_tablenames_from_db", raised |-> "",
                  tables |-> IF prefix # ""
                             THEN [k \in DOMAIN derived |-> prefix \o "_" \o derived[k]]
                             ELSE derived]

\* read_tablenames_from_db(meta_table_name): the select fails when the
\* registry table was never created.
ReadTablenamesFromDb ==
    /\ result' = IF registryExists
                 THEN read_tablenames(registry)
                 ELSE [op |-> "read_tablenames_from_db", raised |-> "UndefinedTable"]
    /\ UNCHANGED <<uniqueEnforced, aggVars, registryVars, writerVars, topicVars>>

----------------------------------------------------------------------------
(* Values shared by the writer and the readers.                            *)

\* Python's None / SQL NULL, and a present value.
None == <<>>
Some(x) == <<x>>

Times == 0..2            \* stored timestamps (UTC instants)
TopicIds == {1, 2}
DataValues == {1, 2}     \* JSON-serialisable readings

\* jsonapi.dumps(data): the JSON text of a number.
dumps(d) == ToString(d)

\* jsonapi.loads(value): the number a JSON text denotes.
loads(s) == CHOOSE d \in DataValues : dumps(d) = s

\* The (ts, topic_id, data) triples a historian submits.
Submissions ==
    {<<0, 1, 1>>, <<1, 1, 1>>, <<1, 1, 2>>, <<2, 1, 2>>, <<1, 2, 1>>}

\* SQL('({}, {}, {})').format(Literal(ts), Literal(topic_id), Literal(value))
RowTuple(ts, topic_id, value) ==
    [ts |-> ts, topic_id |-> topic_id, value_string |-> value]

----------------------------------------------------------------------------
(* Batch Writer: the bulk_insert context manager.                          *)

RECURSIVE SeqToBag(_)
SeqToBag(rows) ==
    IF rows = <<>> THEN EmptyBag ELSE SetToBag({Head(rows)}) (+) SeqToBag(Tail(rows))

\* UNIQUE (topic_id, ts) of the data table: would inserting rows break it?
ViolatesUnique(table, rows) ==
    \/ \E i, j \in 1..Len(rows) :
          i # j /\ rows[i].topic_id = rows[j].topic_id /\ rows[i].ts = rows[j].ts
    \/ \E i \in 1..Len(rows) : \E r \in BagToSet(table) :
          r.topic_id = rows[i].topic_id /\ r.ts = rows[i].ts

\* INSERT INTO data_table VALUES r1, r2, ...
InsertStmt(rows) == [stmt |-> "INSERT", table |-> "data_table", values |-> rows]

\* `with self.bulk_insert() as insert_data:` runs the generator to its yield.
BulkInsertEnter ==
    /\ session = "idle"
    /\ session' = "open"
    /\ records' = <<>>
    /\ submitted' = <<>>
    /\ executed' = <<>>
    /\ result' = [op |-> "bulk_insert_enter"]
    /\ UNCHANGED <<uniqueEnforced, aggVars, data, registryVars, topicVars>>

\* insert_data(ts, topic_id, data): serialise, buffer, return True.
insert_data(ts, topic_id, d) ==
    /\ session = "open"
    /\ Len(records) < MaxBatch
    /\ BagCardinality(data) + Len(records) < MaxRows
    /\ records' = Append(records, RowTuple(ts, topic_id, dumps(d)))
    /\ submitted' = Append(submitted, <<ts, topic_id, d>>)
    /\ result' = [op |-> "insert_data", returned |-> TRUE]
    /\ UNCHANGED <<uniqueEnforced, aggVars, data, session, executed, registryVars, topicVars>>

InsertData == \E sub \in Submissions : insert_data(sub[1], sub[2], sub[3])

\* Variant: one INSERT per buffered row.
FlushStmtsMutantPerRow(recs) == [i \in 1..Len(recs) |-> InsertStmt(<<recs[i]>>)]

\* The statements the generator issues after its yield.
FlushStmts(recs) == IF recs # <<>> THEN <<InsertStmt(recs)>> ELSE <<>>

\* The rows the statements carry, in statement order.
RECURSIVE AllValues(_)
AllValues(stmts) ==
    IF stmts = <<>> THEN <<>> ELSE Head(stmts).values \o AllValues(Tail(stmts))

\* The with-block ends normally: the generator resumes after the yield and
\* calls execute_stmt.  The backend applies a statement as a whole or, when
\* it enforces UNIQUE (topic_id, ts), rejects it as a whole; the error
\* leaves the generator and the with statement.
BulkInsertExit ==
    /\ session = "open"
    /\ LET stmts == FlushStmts(records)
           rejected == uniqueEnforced /\ ViolatesUnique(data, AllValues(stmts))
       IN  /\ data' = IF rejected THEN data ELSE data (+) SeqToBag(AllValues(stmts))
           /\ result' = [op |-> "bulk_insert",
                         submitted |-> submitted,
                         executed |-> executed \o stmts,
                         raised |-> IF rejected THEN "IntegrityError" ELSE "",
                         before |-> data]
    /\ session' = "idle"
    /\ records' = <<>>
    /\ submitted' = <<>>
    /\ executed' = <<>>
    /\ UNCHANGED <<uniqueEnforced, aggVars, registryVars, topicVars>>

\* Variant: the flush sits in a finally clause and runs although the caller raised.
BulkInsertRaiseMutantFlush ==
    /\ session = "open"
    /\ data' = data (+) SeqToBag(AllValues(FlushStmts(records)))
    /\ result' = [op |-> "bulk_insert",
                  submitted |-> submitted,
                  executed |-> executed \o FlushStmts(records),
                  raised |-> "CallerError",
                  before |-> data]
    /\ session' = "idle"
    /\ records' = <<>>
    /\ submitted' = <<>>
    /\ executed' = <<>>
    /\ UNCHANGED <<uniqueEnforced, aggVars, registryVars, topicVars>>

\* The caller's code raises inside the with-block: the exception is thrown
\* into the generator at its yield, so the code after the yield never runs.
BulkInsertRaise ==
    /\ session = "open"
    /\ result' = [op |-> "bulk_insert",
                  submitted |-> submitted,
                  executed |-> executed,
                  raised |-> "CallerError",
                  before |-> data]
    /\ session' = "idle"
    /\ records' = <<>>
    /\ submitted' = <<>>
    /\ executed' = <<>>
    /\ UNCHANGED <<uniqueEnforced, aggVars, data, registryVars, topicVars>>

----------------------------------------------------------------------------
(* Range Query Engine: query(topic_ids, id_name_map, start, end, skip, ...,*)
(* count, order) against the raw data table.                               *)

\* A timezone-aware datetime: its wall-clock reading and its UTC offset.
\* The instant it denotes is local - off.
DateTime(local, off) == [local |-> local, off |-> off]
Instant(dt) == dt.local - dt.off

\* start.astimezone(pytz.UTC), applied when start.tzinfo != pytz.UTC.
astimezoneUTC(dt) == DateTime(dt.local - dt.off, 0)
NormaliseTz(opt) ==
    IF opt # None /\ opt[1].off # 0 THEN Some(astimezoneUTC(opt[1])) ELSE opt

\* to_char(ts, 'YYYY-MM-DD"T"HH24:MI:SS.USOF:00') of a stored timestamp.
to_char(ts) == "1970-01-01T00:00:0" \o ToString(ts) \o ".000000+00:00"

\* Variant: the upper bound is included (ts <= end).
TimeFilterMutantClosed(ts, start, end) ==
    IF start # None /\ end # None /\ Instant(start[1]) = Instant(end[1])
    THEN ts = Instant(start[1])
    ELSE /\ (start # None => ts >= Instant(start[1]))
         /\ (end # None => ts <= Instant(end[1]))

\* The WHERE clause's time conditions, as the backend evaluates them on a
\* row's ts for the (normalised) start and end literals.
TimeFilter(ts, start, end) ==
    IF start # None /\ end # None /\ Instant(start[1]) = Instant(end[1])
    THEN ts = Instant(start[1])
    ELSE /\ (start # None => ts >= Instant(start[1]))
         /\ (end # None => ts < Instant(end[1]))

\* SELECT to_char(ts, ..), value_string FROM data WHERE topic_id = id AND ..:
\* one result row per stored copy (copy numbers the copies of equal rows).
SelectRows(table, topic_id, start, end) ==
    UNION { { [ts |-> r.ts, value_string |-> r.value_string, copy |-> c] :
                c \in 1..CopiesIn(r, table) } :
            r \in { x \in BagToSet(table) :
                      x.topic_id = topic_id /\ TimeFilter(x.ts, start, end) } }

\* Variant: SELECT without DISTINCT.
DistinctMutantAll(rows) == rows

\* DISTINCT: equal (to_char(ts), value_string) rows collapse into one.
Distinct(rows) == { [r EXCEPT !.copy = 1] : r \in rows }

\* ORDER BY ts ASC|DESC.  Rows with the same ts come in an order the
\* backend chooses; tie is that choice.
Before(a, b, order, tie) ==
    IF a.ts # b.ts
    THEN IF order = "LAST_TO_FIRST" THEN a.ts > b.ts ELSE a.ts < b.ts
    ELSE IF a.value_string = b.value_string THEN a.copy < b.copy
    ELSE IF tie = "up" THEN loads(a.value_string) < loads(b.value_string)
    ELSE loads(a.value_string) > loads(b.value_string)

RECURSIVE OrderBy(_, _, _)
OrderBy(rows, order, tie) ==
    IF rows = {} THEN <<>>
    ELSE LET first == CHOOSE a \in rows : \A b \in rows \ {a} : Before(a, b, order, tie)
         IN  <<first>> \o OrderBy(rows \ {first}, order, tie)

\* LIMIT {} OFFSET {}: present when `skip or count`; a missing or negative
\* count is NULL (no limit), a missing or negative skip is NULL (no offset).
HasLimitClause(skip, count) == skip # 0 \/ (count # None /\ count[1] # 0)
\* Variant: count is passed to the LIMIT literal as given.
LimitLiteralMutantRaw(count) == count
LimitLiteral(count) == IF count = None \/ count[1] = 0 \/ count[1] < 0 THEN None ELSE count
OffsetLiteral(skip) == IF skip = 0 \/ skip < 0 THEN None ELSE Some(skip)

Paginate(rows, skip, count) ==
    IF ~ HasLimitClause(skip, count) THEN rows
    ELSE LET off == IF OffsetLiteral(skip) = None THEN 0 ELSE OffsetLiteral(skip)[1]
             lim == IF LimitLiteral(count) = None THEN Len(rows) ELSE LimitLiteral(count)[1]
             last == IF off + lim < Len(rows) THEN off + lim ELSE Len(rows)
         IN  SubSeq(rows, off + 1, last)

\* The LIMIT and OFFSET literals of the statement, None when the statement
\* carries no LIMIT/OFFSET clause.
LimitClause(skip, count) ==
    IF HasLimitClause(skip, count)
    THEN Some(<<LimitLiteral(count), OffsetLiteral(skip)>>)
    ELSE None

\* values[name] = [(ts, jsonapi.loads(value)) for ts, value in cursor]
FetchPairs(rows) == [i \in 1..Len(rows) |-> <<to_char(rows[i].ts), loads(rows[i].value_string)>>]

\* The statement's result for one topic id.
QueryTopic(table, topic_id, start, end, skip, count, order, tie) ==
    FetchPairs(Paginate(OrderBy(Distinct(SelectRows(table, topic_id,
                                                    NormaliseTz(start), NormaliseTz(end))),
                                order, tie),
                        skip, count))

\* id_name_map, supplied by the caller.
IdNameMap == (1 :> "campus/temp") @@ (2 :> "campus/flow")

\* The arguments explored.  start/end are None or aware datetimes, some of
\* them not in UTC.
TopicIdLists == {<<1>>, <<2, 1>>}
Starts == {None, Some(DateTime(0, 0)), Some(DateTime(2, 1))}
Ends == {None, Some(DateTime(1, 0)), Some(DateTime(3, 1))}
Pages == {<<0, None>>, <<1, None>>, <<0, Some(1)>>, <<1, Some(1)>>,
          <<-1, Some(1)>>, <<1, Some(-1)>>, <<0, Some(0)>>}
Orders == {"FIRST_TO_LAST", "LAST_TO_FIRST"}

\* A read (query, collect_aggregate) changes nothing but result, so a read
\* issued right after another read reaches only states that the first read
\* already reaches from the same storage; the reads explored are those that
\* follow a write step.  The historian reads between write cycles, never
\* inside an open bulk_insert block.
ReadOps == {"query", "collect_aggregate"}
ReadEnabled == session = "idle" /\ result.op \notin ReadOps

\* query(...) with agg_type/agg_period not given, so table_name is the raw
\* data table.
query(topic_ids, start, end, skip, count, order, tie) ==
    /\ ReadEnabled
    /\ result' = [op |-> "query",
                  topic_ids |-> topic_ids, start |-> start, end |-> end,
                  skip |-> skip, count |-> count, order |-> order,
                  clause |-> LimitClause(skip, count),
                  values |-> [name \in {IdNameMap[topic_ids[i]] : i \in 1..Len(topic_ids)} |->
                                QueryTopic(data,
                                           CHOOSE id \in TopicIds : IdNameMap[id] = name,
                                           start, end, skip, count, order, tie)]]
    /\ UNCHANGED <<uniqueEnforced, aggVars, registryVars, writerVars, topicVars>>

Query ==
    \E topic_ids \in TopicIdLists, start \in Starts, end \in Ends, page \in Pages,
       order \in Orders, tie \in {"up", "down"} :
        query(topic_ids, start, end, page[1], page[2], order, tie)

----------------------------------------------------------------------------
(* Aggregate Engine: get_aggregation_list / collect_aggregate.             *)

get_aggregation_list ==
    {"AVG", "MIN", "MAX", "COUNT", "SUM", "BIT_AND", "BIT_OR", "BOOL_AND", "BOOL_OR",
     "MEDIAN", "STDDEV", "STDDEV_POP", "STDDEV_SAMP", "VAR_POP", "VAR_SAMP", "VARIANCE"}

\* The agg_type arguments explored: a value has a Python type and, when it
\* is textual, its characters.  `unicode` is Python 2's other text type
\* (what the JSON configuration loader produces); None is the absent value.
AggTexts == {"avg", "SUM", "count", "Max", "median", "drop table"}
AggTypes ==
    [type : {"str", "unicode"}, text : AggTexts] \cup {[type |-> "NoneType", text |-> ""]}

\* agg_type.upper()
upper(text) ==
    CASE text = "avg" -> "AVG"
      [] text = "SUM" -> "SUM"
      [] text = "count" -> "COUNT"
      [] text = "Max" -> "MAX"
      [] text = "median" -> "MEDIAN"
      [] text = "drop table" -> "DROP TABLE"
      [] OTHER -> text

\* isinstance(agg_type, str) and agg_type.upper() not in self.get_aggregation_list()
Rejected(agg_type) ==
    agg_type.type = "str" /\ upper(agg_type.text) \notin get_aggregation_list

\* CAST(value_string as float)
CastFloat(s) == loads(s)

\* Number of stored copies of the rows in S.
RECURSIVE CopiesOf(_, _)
CopiesOf(S, table) ==
    IF S = {} THEN 0
    ELSE LET x == CHOOSE y \in S : TRUE
         IN  CopiesIn(x, table) + CopiesOf(S \ {x}, table)

\* Sum of the numbers in S, each counted as often as the bag vals holds it.
RECURSIVE SumOf(_, _)
SumOf(S, vals) ==
    IF S = {} THEN 0
    ELSE LET x == CHOOSE y \in S : TRUE
         IN  x * CopiesIn(x, vals) + SumOf(S \ {x}, vals)

\* The rows collect_aggregate's WHERE clause selects, as a bag of floats.
AggregateInput(table, topic_ids, start, end) ==
    LET sel == { r \in BagToSet(table) :
                   /\ \E i \in 1..Len(topic_ids) : topic_ids[i] = r.topic_id
                   /\ (start # None => r.ts >= start[1])
                   /\ (end # None => r.ts < end[1]) }
        vals == {CastFloat(r.value_string) : r \in sel}
    IN  [v \in vals |->
            CopiesOf({x \in sel : CastFloat(x.value_string) = v}, table)]

\* What the backend computes for `SELECT fn(..), COUNT(..)` without GROUP
\* BY: always one row; over no input rows every aggregate but COUNT is NULL.
\* A value is Some(n), a fraction <<numerator, denominator>>, or None (NULL).
AggregateValue(fn, vals) ==
    LET n == BagCardinality(vals)
        s == SumOf(BagToSet(vals), vals)
    IN  IF fn = "COUNT" THEN Some(n)
        ELSE IF n = 0 THEN None
        ELSE CASE fn = "SUM" -> Some(s)
               [] fn = "MIN" -> Some(CHOOSE v \in BagToSet(vals) : \A w \in BagToSet(vals) : v <= w)
               [] fn = "MAX" -> Some(CHOOSE v \in BagToSet(vals) : \A w \in BagToSet(vals) : v >= w)
               [] fn = "AVG" -> <<s, n>>
               [] OTHER -> <<fn, n, s>>

AggregateRows(fn, vals) == << <<AggregateValue(fn, vals), Some(BagCardinality(vals))>> >>

\* return rows[0] if rows else (0, 0)
FirstRowOrZero(rows) == IF rows # <<>> THEN rows[1] ELSE <<Some(0), Some(0)>>

\* The statement text: the upper-cased name is formatted into the SQL.
AggregateStmt(fn, topic_ids, start, end) ==
    [stmt |-> "SELECT", function |-> fn, table |-> "data_table",
     topic_ids |-> topic_ids, start |-> start, end |-> end]

AggTopicIdLists == {<<>>, <<1>>, <<2>>, <<1, 2>>}
AggStarts == {None, Some(1)}
AggEnds == {None, Some(2)}

collect_aggregate(topic_ids, agg_type, start, end) ==
    /\ ReadEnabled
    /\ result' =
         LET args == [topic_ids |-> topic_ids, agg_type |-> agg_type,
                      start |-> start, end |-> end]
         IN  IF Rejected(agg_type)
             THEN [op |-> "collect_aggregate", args |-> args,
                   raised |-> "ValueError", selects |-> <<>>]
             ELSE IF agg_type.type = "NoneType"
             THEN \* agg_type.upper() on None
                  [op |-> "collect_aggregate", args |-> args,
                   raised |-> "AttributeError", selects |-> <<>>]
             ELSE LET fn == upper(agg_type.text)
                      stmt == AggregateStmt(fn, topic_ids, start, end)
                  IN  IF topic_ids = <<>> \/ fn \notin get_aggregation_list
                      THEN \* `topic_id in ()`, or text that is no aggregate
                           \* call: the backend answers with an error
                           [op |-> "collect_aggregate", args |-> args,
                            raised |-> "ProgrammingError", selects |-> <<stmt>>]
                      ELSE [op |-> "collect_aggregate", args |-> args,
                            raised |-> "", selects |-> <<stmt>>,
                            returned |-> FirstRowOrZero(AggregateRows(fn,
                                AggregateInput(data, topic_ids, start, end)))]
    /\ UNCHANGED <<uniqueEnforced, aggVars, registryVars, writerVars, topicVars>>

CollectAggregate ==
    \E topic_ids \in AggTopicIdLists, agg_type \in AggTypes,
       start \in AggStarts, end \in AggEnds :
        collect_aggregate(topic_ids, agg_type, start, end)

----------------------------------------------------------------------------
(* Topic Identity Manager: insert_topic, update_topic_query, get_topic_map. *)

TopicNames == {"X", "x", "Y"}

\* LOWER(topic_name)
LOWER(name) ==
    CASE name = "X" -> "x"
      [] name = "Y" -> "y"
      [] OTHER -> name

\* topic_id INTEGER IDENTITY (1, 1): seed and step of the identity column.
IdentitySeed == 1
IdentityStep == 1

\* UNIQUE (topic_name) of the topics table.
NameTaken(table, name, except) ==
    \E r \in table : r.topic_name = name /\ r.topic_id # except

MaxOf(S) == CHOOSE m \in S : \A n \in S : n <= m
MinOf(S) == CHOOSE m \in S : \A n \in S : m <= n

\* Variant: the re-select takes the smallest id carrying the name.
SelectTopicIdMutantMin(table, topic) ==
    MinOf({r.topic_id : r \in {x \in table : x.topic_name = topic}})

\* SELECT MAX(topic_id) FROM topics WHERE topic_name = %(topic)s
SelectTopicId(table, topic) ==
    MaxOf({r.topic_id : r \in {x \in table : x.topic_name = topic}})

\* insert_topic(topic): INSERT INTO topics (topic_name) VALUES (topic), then
\* the re-select of the largest id carrying that name; return cursor.next()[0].
\* A backend that enforces UNIQUE (topic_name) rejects a name already there
\* (the identity value drawn for the row is not handed out again).
insert_topic(topic) ==
    /\ nextTopicId < IdentitySeed + MaxTopics * IdentityStep
    /\ nextTopicId' = nextTopicId + IdentityStep
    /\ IF uniqueEnforced /\ NameTaken(topics, topic, 0)
       THEN /\ topics' = topics
            /\ result' = [op |-> "insert_topic", topic |-> topic,
                          raised |-> "IntegrityError"]
       ELSE /\ topics' = topics \cup {[topic_id |-> nextTopicId, topic_name |-> topic]}
            /\ result' = [op |-> "insert_topic", topic |-> topic, raised |-> "",
                          inserted |-> nextTopicId,
                          returned |-> SelectTopicId(topics', topic)]
    /\ UNCHANGED <<uniqueEnforced, aggVars, registryVars, writerVars>>

InsertTopic == \E topic \in TopicNames : insert_topic(topic)

\* The statement update_topic_query() builds, executed with (name, id):
\* UPDATE topics SET topic_name = %s WHERE topic_id = %s
update_topic(topic_id, name) ==
    /\ \E r \in topics : r.topic_id = topic_id
    /\ IF uniqueEnforced /\ NameTaken(topics, name, topic_id)
       THEN /\ topics' = topics
            /\ result' = [op |-> "update_topic", raised |-> "IntegrityError"]
       ELSE /\ topics' = { IF r.topic_id = topic_id
                           THEN [topic_id |-> topic_id, topic_name |-> name]
                           ELSE r : r \in topics }
            /\ result' = [op |-> "update_topic", raised |-> ""]
    /\ UNCHANGED <<uniqueEnforced, aggVars, nextTopicId, registryVars, writerVars>>

UpdateTopic ==
    \E topic_id \in IdentitySeed..(IdentitySeed + MaxTopics * IdentityStep), name \in TopicNames :
        update_topic(topic_id, name)

\* SELECT topic_id, topic_name, LOWER(topic_name) FROM topics ORDER BY topic_id
ScanTopics(table) ==
    LET RECURSIVE scan(_)
        scan(rest) ==
            IF rest = {} THEN <<>>
            ELSE LET r == CHOOSE x \in rest : \A y \in rest : x.topic_id <= y.topic_id
                 IN  <<<<r.topic_id, r.topic_name, LOWER(r.topic_name)>>>> \o scan(rest \ {r})
    IN  scan(table)

\* id_map = {key: tid for tid, _, key in rows}; name_map = {key: name for _, name, key in rows}
\* (a later row of the scan replaces an earlier one with the same key).
get_topic_map(table) ==
    LET rows == ScanTopics(table)
    IN  [id_map |-> DictOf([i \in 1..Len(rows) |-> <<rows[i][3], rows[i][1]>>]),
         name_map |-> DictOf([i \in 1..Len(rows) |-> <<rows[i][3], rows[i][2]>>])]

GetTopicMap ==
    /\ result' = [op |-> "get_topic_map", returned |-> get_topic_map(topics)]
    /\ UNCHANGED <<uniqueEnforced, aggVars, registryVars, writerVars, topicVars>>

----------------------------------------------------------------------------
(* Aggregate topics: __init__, setup_aggregate_historian_tables,           *)
(* insert_agg_topic, replace_agg_meta_stmt, get_agg_topics,                *)
(* get_agg_topic_map.                                                      *)

\* The table_names argument of the constructor: nothing, the three names of
\* the table definitions, or those plus the two aggregate names.
NoTableNames == <<>>
BaseTableNames ==
    ("data_table" :> "data") @@ ("topics_table" :> "topics") @@ ("meta_table" :> "meta")
AllTableNames ==
    ("agg_topics_table" :> "aggregate_topics") @@ ("agg_meta_table" :> "aggregate_meta")
    @@ BaseTableNames
TableNameArgs == {NoTableNames, BaseTableNames, AllTableNames}

\* table_names.get(key)
Get(table_names, key) == IF key \in DOMAIN table_names THEN Some(table_names[key]) ELSE None

\* __init__(connect_params, table_names): the attributes the constructor
\* sets; none at all when table_names is empty or None.
init(table_names) ==
    IF table_names = NoTableNames THEN <<>>
    ELSE ("data_table" :> Some(table_names["data_table"]))
         @@ ("topics_table" :> Some(table_names["topics_table"]))
         @@ ("meta_table" :> Some(table_names["meta_table"]))
         @@ ("agg_topics_table" :> Get(table_names, "agg_topics_table"))
         @@ ("agg_meta_table" :> Get(table_names, "agg_meta_table"))

\* A new driver instance is constructed on the same database.
Construct ==
    \E table_names \in TableNameArgs :
        /\ attrs' = init(table_names)
        /\ result' = [op |-> "__init__"]
        /\ UNCHANGED <<uniqueEnforced, aggTopicsTables, aggMetaTables,
                       registryVars, writerVars, topicVars>>

\* Exceptions, by class and (for backend errors) SQLSTATE.
NoError == [type |-> "", pgcode |-> ""]
Error(type, pgcode) == [type |-> type, pgcode |-> pgcode]
UNDEFINED_TABLE == "42P01"
UndefinedTable == Error("ProgrammingError", UNDEFINED_TABLE)

\* Identifier(self.<attr>): reading an attribute the constructor never set
\* raises AttributeError, Identifier(None) raises TypeError.
IdentifierError(attr) ==
    IF attr \notin DOMAIN attrs THEN Error("AttributeError", "")
    ELSE IF attrs[attr] = None THEN Error("TypeError", "")
    ELSE NoError

\* The table definitions recorded ahead of the aggregate setup.
AggTableDefs ==
    { <<<<"data_table", "data">>, <<"topics_table", "topics">>, <<"meta_table", "meta">>>>,
      <<<<"data_table", "data">>, <<"topics_table", "points">>, <<"meta_table", "meta">>>> }

RecordAggTableDefinitions ==
    \E tables_def \in AggTableDefs : record_table_definitions(tables_def)

\* CREATE TABLE IF NOT EXISTS
CreateIfNotExists(tables, name, empty) ==
    IF name \in DOMAIN tables THEN tables ELSE (name :> empty) @@ tables

\* setup_aggregate_historian_tables(meta_table_name): read the registry,
\* set the five attributes from it, create the two aggregate tables.
setup_aggregate_historian_tables ==
    LET read == IF registryExists THEN read_tablenames(registry)
                ELSE [op |-> "read_tablenames_from_db", raised |-> "UndefinedTable"]
        raised == IF read.raised # "" THEN read.raised
                  ELSE IF "data_table" \notin DOMAIN read.tables THEN "KeyError"
                  ELSE ""
    IN  /\ result' = [op |-> "setup_aggregate_historian_tables", raised |-> raised]
        /\ IF raised # ""
           THEN UNCHANGED aggVars
           ELSE /\ attrs' = [k \in DOMAIN AllTableNames |-> Some(read.tables[k])]
                /\ aggTopicsTables' =
                      CreateIfNotExists(aggTopicsTables, read.tables["agg_topics_table"],
                                        [rows |-> {}, identity |-> IdentitySeed])
                /\ aggMetaTables' =
                      CreateIfNotExists(aggMetaTables, read.tables["agg_meta_table"], <<>>)
        /\ UNCHANGED <<uniqueEnforced, registryVars, writerVars, topicVars>>

SetupAggregateHistorianTables == setup_aggregate_historian_tables

AggTopicNames == {"X", "x"}
AggPeriods == {"1h"}

\* UNIQUE (agg_topic_name, agg_type, agg_time_period)
AggTaken(rows, topic, agg_type, period) ==
    \E r \in rows : /\ r.agg_topic_name = topic
                    /\ r.agg_type = agg_type
                    /\ r.agg_time_period = period

\* SELECT MAX(agg_topic_id) FROM agg_topics WHERE name, type and period match
SelectAggTopicId(rows, topic, agg_type, period) ==
    MaxOf({r.agg_topic_id : r \in {x \in rows : /\ x.agg_topic_name = topic
                                                 /\ x.agg_type = agg_type
                                                 /\ x.agg_time_period = period}})

\* insert_agg_topic(topic, agg_type, agg_time_period): the INSERT and the
\* re-select of insert_agg_topic_stmt(); return cursor.next()[0].
insert_agg_topic(topic, agg_type, period) ==
    LET attrError == IdentifierError("agg_topics_table")
        name == attrs["agg_topics_table"][1]
        table == aggTopicsTables[name]
        row == [agg_topic_id |-> table.identity, agg_topic_name |-> topic,
                agg_type |-> agg_type, agg_time_period |-> period]
    IN  /\ IF attrError # NoError
           THEN /\ result' = [op |-> "insert_agg_topic", raised |-> attrError]
                /\ UNCHANGED aggTopicsTables
           ELSE IF name \notin DOMAIN aggTopicsTables
           THEN /\ result' = [op |-> "insert_agg_topic", raised |-> UndefinedTable]
                /\ UNCHANGED aggTopicsTables
           ELSE /\ table.identity < IdentitySeed + MaxAggTopics * IdentityStep
                /\ IF uniqueEnforced /\ AggTaken(table.rows, topic, agg_type, period)
                   THEN /\ aggTopicsTables' =
                              [aggTopicsTables EXCEPT ![name].identity = @ + IdentityStep]
                        /\ result' = [op |-> "insert_agg_topic",
                                      raised |-> Error("IntegrityError", "23505")]
                   ELSE /\ aggTopicsTables' =
                              [aggTopicsTables EXCEPT ![name] =
                                  [rows |-> table.rows \cup {row},
                                   identity |-> table.identity + IdentityStep]]
                        /\ result' = [op |-> "insert_agg_topic", raised |-> NoError,
                                      returned |-> SelectAggTopicId(table.rows \cup {row},
                                                                    topic, agg_type, period)]
        /\ UNCHANGED <<uniqueEnforced, attrs, aggMetaTables,
                       registryVars, writerVars, topicVars>>

InsertAggTopic ==
    \E topic \in AggTopicNames, period \in AggPeriods :
        insert_agg_topic(topic, "avg", period)

\* The metadata texts stored, and what ast.literal_eval makes of them.
MetaTexts == {"{'configured_topics': 'campus/.*'}", "{'configured_topics': 'campus/temp'}"}
literal_eval(meta) ==
    CASE meta = "{'configured_topics': 'campus/.*'}" -> [configured_topics |-> "campus/.*"]
      [] meta = "{'configured_topics': 'campus/temp'}" -> [configured_topics |-> "campus/temp"]

\* The statement replace_agg_meta_stmt() builds, executed with
\* (agg_topic_id, metadata): INSERT INTO agg_meta VALUES (%s, %s)
replace_agg_meta(agg_topic_id, metadata) ==
    LET attrError == IdentifierError("agg_meta_table")
        name == attrs["agg_meta_table"][1]
    IN  /\ IF attrError # NoError
           THEN /\ result' = [op |-> "replace_agg_meta", raised |-> attrError]
                /\ UNCHANGED aggMetaTables
           ELSE IF name \notin DOMAIN aggMetaTables
           THEN /\ result' = [op |-> "replace_agg_meta", raised |-> UndefinedTable]
                /\ UNCHANGED aggMetaTables
           ELSE /\ Len(aggMetaTables[name]) < MaxAggMeta
                /\ IF uniqueEnforced /\ \E i \in 1..Len(aggMetaTables[name]) :
                                           aggMetaTables[name][i][1] = agg_topic_id
                   THEN /\ UNCHANGED aggMetaTables
                        /\ result' = [op |-> "replace_agg_meta",
                                      raised |-> Error("IntegrityError", "23505")]
                   ELSE /\ aggMetaTables' =
                              [aggMetaTables EXCEPT ![name] =
                                  Append(@, <<agg_topic_id, metadata>>)]
                        /\ result' = [op |-> "replace_agg_meta", raised |-> NoError]
        /\ UNCHANGED <<uniqueEnforced, attrs, aggTopicsTables,
                       registryVars, writerVars, topicVars>>

ReplaceAggMeta ==
    \E agg_topic_id \in IdentitySeed..(IdentitySeed + (MaxAggTopics - 1) * IdentityStep),
       metadata \in MetaTexts :
        replace_agg_meta(agg_topic_id, metadata)

\* Errors the backend may raise while running a select, besides the one for
\* a table that does not exist: a ProgrammingError with another SQLSTATE and
\* an error of another class.
SelectFaults ==
    {NoError, Error("ProgrammingError", "42501"), Error("OperationalError", "57P01")}

\* self.select(query): the fault the backend raises, the undefined-table
\* error when a table named in the statement does not exist, or no error.
SelectError(fault, missing) ==
    IF fault # NoError THEN fault
    ELSE IF missing THEN UndefinedTable
    ELSE NoError

\* except ProgrammingError as exc: an undefined table is swallowed (the
\* method returns its empty value), anything else is raised again; errors
\* of other classes are not caught.
Swallowed(exc) == exc.type = "ProgrammingError" /\ exc.pgcode = UNDEFINED_TABLE

\* History: the aggregate-topics table does not exist, i.e. the table the
\* instance is configured with is not there or, for an instance without a
\* configured name, the database holds no aggregate-topics table at all.
AggTopicsAbsent ==
    IF IdentifierError("agg_topics_table") = NoError
    THEN attrs["agg_topics_table"][1] \notin DOMAIN aggTopicsTables
    ELSE DOMAIN aggTopicsTables = {}

\* The rows of an aggregate-topics table in agg_topic_id order.
ScanAggTopics(rows) ==
    LET RECURSIVE scan(_)
        scan(rest) ==
            IF rest = {} THEN <<>>
            ELSE LET r == CHOOSE x \in rest :
                              \A y \in rest : x.agg_topic_id <= y.agg_topic_id
                 IN  <<r>> \o scan(rest \ {r})
    IN  scan(rows)

Reverse(seq) == [i \in 1..Len(seq) |-> seq[Len(seq) + 1 - i]]

\* FROM t, m WHERE t.agg_topic_id = m.agg_topic_id ORDER BY t.agg_topic_id;
\* rows of equal agg_topic_id come in either order (tie).
JoinAggMeta(rows, meta, tie) ==
    LET scanned == ScanAggTopics(rows)
        matches(t) == LET ms == SelectSeq(meta, LAMBDA m : m[1] = t.agg_topic_id)
                          ordered == IF tie = "up" THEN ms ELSE Reverse(ms)
                      IN  [i \in 1..Len(ms) |-> <<t.agg_topic_name, t.agg_type,
                                                  t.agg_time_period, ordered[i][2]>>]
        RECURSIVE join(_)
        join(i) == IF i > Len(scanned) THEN <<>>
                   ELSE matches(scanned[i]) \o join(i + 1)
    IN  join(1)

\* get_agg_topic_map(): {(LOWER(name), type, period): id} from one scan in
\* agg_topic_id order, {} when the select reports an undefined table.
get_agg_topic_map(fault) ==
    LET attrError == IdentifierError("agg_topics_table")
        name == attrs["agg_topics_table"][1]
        missing == name \notin DOMAIN aggTopicsTables
        exc == SelectError(fault, missing)
        rows == ScanAggTopics(aggTopicsTables[name].rows)
        call == [op |-> "get_agg_topic_map", absent |-> AggTopicsAbsent]
    IN  /\ result' =
              IF attrError # NoError
              THEN call @@ [select |-> NoError, raised |-> attrError]
              ELSE IF exc # NoError
              THEN IF Swallowed(exc)
                   THEN call @@ [select |-> exc, raised |-> NoError, returned |-> <<>>]
                   ELSE call @@ [select |-> exc, raised |-> exc]
              ELSE call @@ [select |-> NoError, raised |-> NoError,
                            returned |-> DictOf([i \in 1..Len(rows) |->
                                <<<<LOWER(rows[i].agg_topic_name), rows[i].agg_type,
                                    rows[i].agg_time_period>>, rows[i].agg_topic_id>>])]
        /\ UNCHANGED <<uniqueEnforced, aggVars, registryVars, writerVars, topicVars>>

GetAggTopicMap == \E fault \in SelectFaults : get_agg_topic_map(fault)

\* get_agg_topics(): [(name, type, period, configured_topics)] from the
\* join, [] when the select reports an undefined table.
get_agg_topics(fault, tie) ==
    LET topicsError == IdentifierError("agg_topics_table")
        metaError == IdentifierError("agg_meta_table")
        attrError == IF topicsError # NoError THEN topicsError ELSE metaError
        t == attrs["agg_topics_table"][1]
        m == attrs["agg_meta_table"][1]
        missing == t \notin DOMAIN aggTopicsTables \/ m \notin DOMAIN aggMetaTables
        exc == SelectError(fault, missing)
        rows == JoinAggMeta(aggTopicsTables[t].rows, aggMetaTables[m], tie)
        call == [op |-> "get_agg_topics", absent |-> AggTopicsAbsent]
    IN  /\ result' =
              IF attrError # NoError
              THEN call @@ [select |-> NoError, raised |-> attrError]
              ELSE IF exc # NoError
              THEN IF Swallowed(exc)
                   THEN call @@ [select |-> exc, raised |-> NoError, returned |-> <<>>]
                   ELSE call @@ [select |-> exc, raised |-> exc]
              ELSE call @@ [select |-> NoError, raised |-> NoError,
                            returned |-> [i \in 1..Len(rows) |->
                                <<rows[i][1], rows[i][2], rows[i][3],
                                  literal_eval(rows[i][4]).configured_topics>>]]
        /\ UNCHANGED <<uniqueEnforced, aggVars, registryVars, writerVars, topicVars>>

GetAggTopics == \E fault \in SelectFaults, tie \in {"up", "down"} : get_agg_topics(fault, tie)

----------------------------------------------------------------------------
(* Specifications.                                                         *)

\* After construction and setup_historian_tables(): empty tables, no
\* registry yet, no session.  The backend either enforces the UNIQUE
\* constraints the DDL declares or keeps them as planner hints only.
Init ==
    /\ uniqueEnforced \in BOOLEAN
    /\ registryExists = FALSE
    /\ registry = <<>>
    /\ lastWritten = <<>>
    /\ lastDefs = <<>>
    /\ data = EmptyBag
    /\ session = "idle"
    /\ records = <<>>
    /\ submitted = <<>>
    /\ executed = <<>>
    /\ topics = {}
    /\ nextTopicId = IdentitySeed
    /\ attrs = init(BaseTableNames)
    /\ aggTopicsTables = <<>>
    /\ aggMetaTables = <<>>
    /\ result = NoResult

NextRegistry == RecordTableDefinitions \/ ReadTablenamesFromDb
SpecRegistry == Init /\ [][NextRegistry]_vars

NextWriter == BulkInsertEnter \/ InsertData \/ BulkInsertExit \/ BulkInsertRaise
SpecWriter == Init /\ [][NextWriter]_vars

NextReader ==
    \/ BulkInsertEnter \/ InsertData \/ BulkInsertExit \/ BulkInsertRaise
    \/ Query
    \/ CollectAggregate
SpecReader == Init /\ [][NextReader]_vars

NextTopics == InsertTopic \/ UpdateTopic \/ GetTopicMap
SpecTopics == Init /\ [][NextTopics]_vars

NextAggTopics ==
    \/ Construct
    \/ RecordAggTableDefinitions
    \/ SetupAggregateHistorianTables
    \/ InsertAggTopic
    \/ ReplaceAggMeta
    \/ GetAggTopicMap
    \/ GetAggTopics
SpecAggTopics == Init /\ [][NextAggTopics]_vars

Next == NextRegistry \/ NextWriter \/ NextTopics \/ NextAggTopics
Spec == Init /\ [][Next]_vars

----------------------------------------------------------------------------
(* Properties of the Table Name Registry (SpecRegistry).                   *)

HasKey(defs, key) == \E i \in 1..Len(defs) : defs[i][1] = key
DefOf(defs, key) == defs[CHOOSE i \in 1..Len(defs) : defs[i][1] = key][2]
RegistryKeys == {registry[i][1] : i \in 1..Len(registry)}

\* C1: after recordTableDefinitions(defs, R) with a non-empty table_prefix
\* p, the prefix is stored under the reserved empty key of R and
\* readTablenamesFromDb(R) returns p_<name> for data_table, topics_table and
\* meta_table, p_aggregate_<topics_table> and p_aggregate_<meta_table>.
C1_PrefixRoundTrip ==
    (registryExists /\ HasKey(lastDefs, "table_prefix")) =>
        LET p == DefOf(lastDefs, "table_prefix")
            got == read_tablenames(registry)
        IN  /\ "" \in RegistryKeys
            /\ DictOf(registry)[""] = p
            /\ got.raised = ""
            /\ \A k \in {"data_table", "topics_table", "meta_table"} :
                  got.tables[k] = p \o "_" \o DefOf(lastDefs, k)
            /\ got.tables["agg_topics_table"] =
                  p \o "_aggregate_" \o DefOf(lastDefs, "topics_table")
            /\ got.tables["agg_meta_table"] =
                  p \o "_aggregate_" \o DefOf(lastDefs, "meta_table")
            /\ (result.op = "read_tablenames_from_db" => result = got)

\* C2: under a single writer the registry holds at most one row per key,
\* each key's row carries the name given by the last call that wrote the
\* key, and a second recordTableDefinitions call with the same definitions
\* leaves the registry, and the mapping readTablenamesFromDb returns, as
\* the first call left them.
C2_RecordIdempotent ==
    /\ \A i, j \in 1..Len(registry) : registry[i][1] = registry[j][1] => i = j
    /\ RegistryKeys = DOMAIN lastWritten
    /\ \A i \in 1..Len(registry) : registry[i][2] = lastWritten[registry[i][1]]
    /\ registryExists =>
          /\ UpsertAll(registry, LoopItems(lastDefs)) = registry
          /\ read_tablenames(UpsertAll(registry, LoopItems(lastDefs))) = read_tablenames(registry)
    /\ (result.op = "record_table_definitions" /\ result.repeated) =>
          result.updated = Len(lastDefs)

\* C2's case: the same definitions were recorded twice in a row, on a
\* registry that an earlier call with a table_prefix had filled.
C2_Witness ==
    /\ result.op = "record_table_definitions"
    /\ result.repeated
    /\ Len(registry) > Len(lastDefs)

----------------------------------------------------------------------------
(* Properties of the Batch Writer (SpecWriter).                            *)

SubmittedRows(subs) == [i \in 1..Len(subs) |-> RowTuple(subs[i][1], subs[i][2], dumps(subs[i][3]))]

\* The with-block ended without the caller raising.
ClosedNormally == result.op = "bulk_insert" /\ result.raised # "CallerError"

\* C3: when a bulkInsert session closes normally after n submissions,
\* exactly one INSERT statement is executed if n >= 1, carrying the n
\* submitted (timestamp, topic_id, serialized value) rows in submission
\* order; none if n = 0; and none is executed while the session is open.
C3_FlushOnce ==
    /\ session = "open" => executed = <<>>
    /\ ClosedNormally =>
          IF Len(result.submitted) = 0
          THEN result.executed = <<>>
          ELSE /\ Len(result.executed) = 1
               /\ result.executed[1].stmt = "INSERT"
               /\ result.executed[1].values = SubmittedRows(result.submitted)

\* C3's case: a session closed after two different submissions.
C3_Witness ==
    /\ ClosedNormally
    /\ Len(result.submitted) = 2
    /\ result.submitted[1] # result.submitted[2]
    /\ result.raised = ""

\* C4: the data table never holds two rows with the same (topic_id, ts).
C4_ReadingsUnique ==
    /\ \A r \in BagToSet(data) : CopiesIn(r, data) = 1
    /\ \A r1, r2 \in BagToSet(data) :
          (r1.topic_id = r2.topic_id /\ r1.ts = r2.ts) => r1 = r2

\* C5: a flush whose rows violate the (topic_id, ts) uniqueness fails as a
\* whole: the error reaches the caller, the data table is unchanged, and the
\* statement was issued once.
C5_FlushAllOrNothing ==
    (ClosedNormally /\ ViolatesUnique(result.before, SubmittedRows(result.submitted))) =>
        /\ result.raised = "IntegrityError"
        /\ data = result.before
        /\ Len(result.executed) = 1

\* C13: when the caller's code raises inside a bulkInsert session after
\* submitting rows, no INSERT statement is executed, the data table is
\* unchanged and the buffer is dropped; the next session starts with an
\* empty buffer, so a later flush carries only that session's own rows.
C13_RaiseDiscardsBatch ==
    /\ (result.op = "bulk_insert" /\ result.raised = "CallerError") =>
          /\ result.executed = <<>>
          /\ data = result.before
          /\ records = <<>>
    /\ result.op = "bulk_insert_enter" => (records = <<>> /\ submitted = <<>>)
    /\ session = "open" => records = SubmittedRows(submitted)
    /\ (ClosedNormally /\ result.executed # <<>>) =>
          AllValues(result.executed) = SubmittedRows(result.submitted)

\* C13's case: the caller raised after submitting two rows, on a data table
\* that earlier sessions had filled.
C13_Witness ==
    /\ result.op = "bulk_insert"
    /\ result.raised = "CallerError"
    /\ Len(result.submitted) = 2
    /\ data # EmptyBag

----------------------------------------------------------------------------
(* Properties of the Aggregate Engine (SpecReader).                        *)

\* The call's aggType has an upper-cased form (it is text).
AggTypeIsText == result.op = "collect_aggregate" /\ result.args.agg_type.type # "NoneType"

\* C6: for every aggType whose upper-cased form is not one of the 16
\* whitelisted names, collectAggregate fails with the invalid-argument
\* error and sends no statement to the backend.
C6_AggTypeValidated ==
    (AggTypeIsText /\ upper(result.args.agg_type.text) \notin get_aggregation_list) =>
        /\ result.raised = "ValueError"
        /\ result.selects = <<>>

\* C7: with a whitelisted aggregate type, collectAggregate returns (0, 0)
\* whenever no stored reading has its topic_id in the given (non-empty) set
\* and its ts in [start, end).
C7_EmptyAggregateIsZero ==
    (/\ AggTypeIsText
     /\ result.args.topic_ids # <<>>
     /\ upper(result.args.agg_type.text) \in get_aggregation_list
     /\ AggregateInput(data, result.args.topic_ids, result.args.start, result.args.end)
           = EmptyBag) =>
        /\ result.raised = ""
        /\ result.returned = <<Some(0), Some(0)>>

----------------------------------------------------------------------------
(* Properties of the Range Query Engine (SpecReader).                      *)

\* The timestamp a formatted string denotes.
TsOf(text) == CHOOSE t \in Times : to_char(t) = text

\* The claim's time window, for the cases it names.
WindowCase(start, end) ==
    \/ start # None /\ end # None /\ Instant(start[1]) <= Instant(end[1])
    \/ start # None /\ end = None
    \/ start = None /\ end # None

InWindow(ts, start, end) ==
    IF start # None /\ end # None
    THEN IF Instant(start[1]) = Instant(end[1])
         THEN ts = Instant(start[1])
         ELSE Instant(start[1]) <= ts /\ ts < Instant(end[1])
    ELSE IF start # None THEN ts >= Instant(start[1])
    ELSE ts < Instant(end[1])

\* The stored readings of a topic inside the window, as query returns them.
StoredInWindow(topic_id, start, end) ==
    { <<to_char(r.ts), loads(r.value_string)>> :
        r \in { x \in BagToSet(data) :
                  x.topic_id = topic_id /\ InWindow(x.ts, start, end) } }

Returned(topic_id) ==
    LET seq == result.values[IdNameMap[topic_id]]
    IN  {seq[i] : i \in 1..Len(seq)}

QueriedIds == {result.topic_ids[i] : i \in 1..Len(result.topic_ids)}

\* C8 as stated: for every topic id queried the returned readings are
\* exactly the stored readings of the topic inside the time window.
C8_WindowExact ==
    (result.op = "query" /\ WindowCase(result.start, result.end)) =>
        \A id \in QueriedIds :
            Returned(id) = StoredInWindow(id, result.start, result.end)

\* C8 amended: the returned readings are always stored readings of the
\* topic inside the time window (start <= ts < end; ts = start when start
\* equals end; ts >= start or ts < end when only one is given), and they are
\* exactly those readings when the query carries no LIMIT/OFFSET clause.
C8_WindowExactUnpaged ==
    (result.op = "query" /\ WindowCase(result.start, result.end)) =>
        \A id \in QueriedIds :
            /\ Returned(id) \subseteq StoredInWindow(id, result.start, result.end)
            /\ ~ HasLimitClause(result.skip, result.count) =>
                  Returned(id) = StoredInWindow(id, result.start, result.end)

\* C8's case: an unpaged query with start < end that returned a reading
\* while the topic also has a reading stored at the excluded upper bound.
C8_Witness ==
    /\ result.op = "query"
    /\ ~ HasLimitClause(result.skip, result.count)
    /\ result.start # None /\ result.end # None
    /\ Instant(result.start[1]) < Instant(result.end[1])
    /\ \E id \in QueriedIds :
          /\ Returned(id) # {}
          /\ \E r \in BagToSet(data) : r.topic_id = id /\ r.ts = Instant(result.end[1])

Ordered(t1, t2, order, strict) ==
    IF order = "LAST_TO_FIRST"
    THEN (IF strict THEN t1 > t2 ELSE t1 >= t2)
    ELSE (IF strict THEN t1 < t2 ELSE t1 <= t2)

----------------------------------------------------------------------------
(* Properties of the aggregate topic readers (SpecAggTopics).              *)

AggReads == {"get_agg_topic_map", "get_agg_topics"}

\* C11: get_agg_topic_map() and get_agg_topics() return an empty result
\* when the aggregate-topics table does not exist, and any error other than
\* the undefined-table error that their select raises reaches the caller
\* unchanged.
C11_EmptyWhenAbsent ==
    result.op \in AggReads =>
        /\ (result.absent /\ result.select \in {NoError, UndefinedTable}) =>
              (result.raised = NoError /\ result.returned = <<>>)
        /\ result.select \notin {NoError, UndefinedTable} =>
              result.raised = result.select

----------------------------------------------------------------------------
(* Properties of query's pagination (SpecReader).                          *)

\* skip or count is requested: skip is given and not zero, or count is
\* given and not zero.
PageRequested == result.skip # 0 \/ (result.count # None /\ result.count[1] # 0)

\* The filtered, ordered sequence of a topic without any LIMIT/OFFSET, for
\* one of the orders the backend may give to rows of equal timestamp.
Unpaged(topic_id, tie) ==
    FetchPairs(OrderBy(Distinct(SelectRows(data, topic_id,
                                           NormaliseTz(result.start),
                                           NormaliseTz(result.end))),
                       result.order, tie))

\* seq with the first s entries dropped and at most c entries kept.
DropKeep(seq, s, c) ==
    LET rest == IF Len(seq) > s THEN Len(seq) - s ELSE 0
        kept == IF c < rest THEN c ELSE rest
    IN  [i \in 1..kept |-> seq[i + s]]

\* C12: the statement carries a LIMIT/OFFSET clause exactly when skip or
\* count is requested; its limit is NULL when count is missing or negative
\* and count otherwise, its offset is NULL when skip is missing or negative
\* and skip otherwise, so neither literal is ever negative; with skip = s >= 0
\* and count = c > 0 each topic's result is its filtered, ordered sequence
\* with the first s readings dropped and at most c readings kept.
C12_Pagination ==
    result.op = "query" =>
        /\ (result.clause # None) <=> PageRequested
        /\ result.clause # None =>
              LET limit == result.clause[1][1]
                  offset == result.clause[1][2]
              IN  /\ limit = (IF result.count = None \/ result.count[1] <= 0
                              THEN None ELSE result.count)
                  /\ offset = (IF result.skip <= 0 THEN None ELSE Some(result.skip))
                  /\ limit # None => limit[1] > 0
                  /\ offset # None => offset[1] > 0
        /\ (result.skip >= 0 /\ result.count # None /\ result.count[1] > 0) =>
              \A id \in QueriedIds :
                  \E tie \in {"up", "down"} :
                      result.values[IdNameMap[id]] =
                          DropKeep(Unpaged(id, tie), result.skip, result.count[1])
        /\ (result.clause # None /\ result.clause[1][1] = None
                                 /\ result.clause[1][2] = None) =>
              \A id \in QueriedIds :
                  \E tie \in {"up", "down"} :
                      result.values[IdNameMap[id]] = Unpaged(id, tie)

\* C12's case: skip = 1 and count = 1 on a topic whose filtered sequence
\* has three readings, so one reading is dropped, one kept and one cut off.
C12_Witness ==
    /\ result.op = "query"
    /\ result.skip = 1
    /\ result.count = Some(1)
    /\ \E id \in QueriedIds :
          /\ Len(Unpaged(id, "up")) = 3
          /\ Len(result.values[IdNameMap[id]]) = 1
          /\ result.values[IdNameMap[id]][1] \in
                {Unpaged(id, "up")[2], Unpaged(id, "down")[2]}

----------------------------------------------------------------------------
(* Properties of the Topic Identity Manager (SpecTopics).                  *)

\* C10: insertTopic(X) returns the identifier of the row it just inserted,
\* and getTopicMap() called right after maps lower-case(X) to that
\* identifier in the ID map and to X in the canonical-name map.
C10_InsertThenMap ==
    (result.op = "insert_topic" /\ result.raised = "") =>
        /\ result.returned = result.inserted
        /\ [topic_id |-> result.inserted, topic_name |-> result.topic] \in topics
        /\ LOWER(result.topic) \in DOMAIN get_topic_map(topics).id_map
        /\ get_topic_map(topics).id_map[LOWER(result.topic)] = result.returned
        /\ get_topic_map(topics).name_map[LOWER(result.topic)] = result.topic

\* C10's case: X was inserted while an older row carries the same name and
\* another older row a name that differs from X only in case.
C10_Witness ==
    /\ result.op = "insert_topic"
    /\ result.raised = ""
    /\ \E r1, r2 \in topics :
          /\ r1.topic_id < result.inserted /\ r1.topic_name = result.topic
          /\ r2.topic_id < result.inserted /\ r2.topic_name # result.topic
          /\ LOWER(r2.topic_name) = LOWER(result.topic)

====
